---- MODULE Spec2Model ----
(***************************************************************************)
(* Shopping-list consolidation of the food planer backend:                 *)
(* normalize_ingredient_key, generate_shopping_list and the shopping-item  *)
(* and ingredient-cache endpoints of backend/app/api/routes.py, with       *)
(* process_shopping_list of backend/app/services/claude_ai.py.             *)
(*                                                                         *)
(* Text (ingredient lines, names, keys, titles) is a sequence of           *)
(* one-character strings, so that the regular expressions, lower(),        *)
(* strip(), "in" and join() of the code are computed, not assumed.         *)
(* Category names are opaque strings: the code only compares them.         *)
(***************************************************************************)
EXTENDS Naturals, Integers, Sequences, FiniteSets, Bags, TLC

VARIABLES cache, shopping, pc, loc, runs, edits, probe

vars == <<cache, shopping, pc, loc, runs, edits, probe>>

(***************************************************************************)
(* Characters and the string primitives used by the code.                  *)
(***************************************************************************)
Digits == {"0", "1", "2", "3", "4", "5", "6", "7", "8", "9"}

\* str.lower(): the upper-case letters with their lower-case letters.
LowerPairs ==
  { <<"A", "a">>, <<"B", "b">>, <<"C", "c">>, <<"D", "d">>, <<"E", "e">>,
    <<"F", "f">>, <<"G", "g">>, <<"H", "h">>, <<"I", "i">>, <<"J", "j">>,
    <<"K", "k">>, <<"L", "l">>, <<"M", "m">>, <<"N", "n">>, <<"O", "o">>,
    <<"P", "p">>, <<"Q", "q">>, <<"R", "r">>, <<"S", "s">>, <<"T", "t">>,
    <<"U", "u">>, <<"V", "v">>, <<"W", "w">>, <<"X", "x">>, <<"Y", "y">>,
    <<"Z", "z">>, <<"Ä", "ä">>, <<"Ö", "ö">>, <<"Ü", "ü">> }

LowerMap ==
  [c \in {q[1] : q \in LowerPairs} |-> (CHOOSE q \in LowerPairs : q[1] = c)[2]]

LowerChar(c) == IF c \in DOMAIN LowerMap THEN LowerMap[c] ELSE c

lower(s) == [i \in 1..Len(s) |-> LowerChar(s[i])]

\* \s of the regular expressions; the modelled texts hold blanks only.
IsSpace(c) == c = " "

\* \w of the regular expressions: letters, digits and the underscore.
IsWord(c) == c \notin {" ", ".", ",", "/", ":", "-", "(", ")", "&"}

\* s[from:] of Python, 1-based: the suffix that starts at index from.
Drop(s, from) == IF from > Len(s) THEN <<>> ELSE SubSeq(s, from, Len(s))

\* s.startswith(p)
StartsWith(s, p) == Len(p) <= Len(s) /\ SubSeq(s, 1, Len(p)) = p

\* "a in b" on strings: a is a contiguous part of b.
Contains(b, a) ==
  \E i \in 1..(Len(b) - Len(a) + 1) : SubSeq(b, i, i + Len(a) - 1) = a

\* The first index at or after i whose character does not satisfy the
\* class test, Len(s) + 1 when there is none.
RECURSIVE SkipSpaces(_, _)
SkipSpaces(s, i) ==
  IF i <= Len(s) /\ IsSpace(s[i]) THEN SkipSpaces(s, i + 1) ELSE i

RECURSIVE SkipDigits(_, _)
SkipDigits(s, i) ==
  IF i <= Len(s) /\ s[i] \in Digits THEN SkipDigits(s, i + 1) ELSE i

RECURSIVE SkipWord(_, _)
SkipWord(s, i) ==
  IF i <= Len(s) /\ IsWord(s[i]) THEN SkipWord(s, i + 1) ELSE i

RECURSIVE SkipLeading(_, _)
SkipLeading(s, i) ==
  IF i <= Len(s) /\ (s[i] \in Digits \cup {".", ",", "/"} \/ IsSpace(s[i]))
  THEN SkipLeading(s, i + 1) ELSE i

\* str.strip() for blanks.
RECURSIVE RStrip(_)
RStrip(s) ==
  IF Len(s) > 0 /\ IsSpace(s[Len(s)]) THEN RStrip(SubSeq(s, 1, Len(s) - 1)) ELSE s

strip(s) == RStrip(Drop(s, SkipSpaces(s, 1)))

\* re.sub(r'\s+', ' ', s): every run of blanks becomes one blank.
RECURSIVE CollapseSpaces(_)
CollapseSpaces(s) ==
  IF s = <<>> THEN <<>>
  ELSE IF IsSpace(s[1])
       THEN <<" ">> \o CollapseSpaces(Drop(s, SkipSpaces(s, 1)))
       ELSE <<s[1]>> \o CollapseSpaces(Tail(s))

RECURSIVE SkipNonSpaces(_, _)
SkipNonSpaces(s, i) ==
  IF i <= Len(s) /\ ~IsSpace(s[i]) THEN SkipNonSpaces(s, i + 1) ELSE i

\* The word of s that starts at index b.
WordFrom(s, b) == SubSeq(s, b, SkipNonSpaces(s, b) - 1)

\* str.split()[0]: the first blank-separated word (the empty text has none;
\* the code reads it only from texts of length >= 4 that strip() left).
FirstWord(s) == WordFrom(s, SkipSpaces(s, 1))

(***************************************************************************)
(* normalize_ingredient_key                                                *)
(***************************************************************************)
\* The unit alternatives of the second expression, lower-cased (the
\* expression is matched with re.IGNORECASE).
UnitWords ==
  { <<"g">>, <<"k", "g">>, <<"m", "l">>, <<"l">>, <<"e", "l">>, <<"t", "l">>,
    <<"s", "t", "ü", "c", "k">>,
    <<"s", "c", "h", "e", "i", "b", "e">>, <<"s", "c", "h", "e", "i", "b", "e", "n">>,
    <<"z", "e", "h", "e">>, <<"z", "e", "h", "e", "n">>,
    <<"t", "b", "s">>, <<"t", "s", "p">>, <<"c", "u", "p">>, <<"c", "u", "p", "s">>,
    <<"c", "l", "o", "v", "e">>, <<"c", "l", "o", "v", "e", "s">>,
    <<"t", "a", "b", "l", "e", "s", "p", "o", "o", "n">>,
    <<"t", "a", "b", "l", "e", "s", "p", "o", "o", "n", "s">>,
    <<"t", "e", "a", "s", "p", "o", "o", "n">>,
    <<"t", "e", "a", "s", "p", "o", "o", "n", "s">> }

\* (unit)\b at index u, where e is the index after the run of word
\* characters that starts at u: every unit ends in a word character, so the
\* closing \b makes the unit that whole run. The index after the match, 0
\* when there is none.
UnitEnd(s, u, e) ==
  IF e > u /\ lower(SubSeq(s, u, e - 1)) \in UnitWords THEN e ELSE 0

\* \s*(unit)\b at index d.
UnitAfterSpaces(s, d) == UnitEnd(s, SkipSpaces(s, d), SkipWord(s, SkipSpaces(s, d)))

\* [.,]? at index d: the index after it.
SkipSeparator(s, d) == IF d <= Len(s) /\ s[d] \in {".", ","} THEN d + 1 ELSE d

\* A match of \b\d+[.,]?\d*\s*(unit)\b that starts at index i of s: the
\* index after the match, 0 when the expression does not match there.
QuantityMatchEnd(s, i) ==
  IF ~(s[i] \in Digits /\ (i = 1 \/ ~IsWord(s[i - 1]))) THEN 0
  ELSE UnitAfterSpaces(s, SkipDigits(s, SkipSeparator(s, SkipDigits(s, i))))

\* re.sub of the quantity expression with '': matches are removed from left
\* to right, the scan resuming after each match.
RECURSIVE RemoveQuantities(_, _)
RemoveQuantities(s, i) ==
  IF i > Len(s) THEN <<>>
  ELSE IF QuantityMatchEnd(s, i) > 0 THEN RemoveQuantities(s, QuantityMatchEnd(s, i))
  ELSE <<s[i]>> \o RemoveQuantities(s, i + 1)

\* The length of the match of (etwa|ca\.?|circa|optional:?) at the start
\* of s, 0 when none matches: the alternatives are tried in this order,
\* without a word boundary after them.
PrefixLength(s) ==
  LET etwa     == <<"e", "t", "w", "a">>
      ca       == <<"c", "a">>
      circa    == <<"c", "i", "r", "c", "a">>
      optional == <<"o", "p", "t", "i", "o", "n", "a", "l">>
      Opt(n, c) == IF n + 1 <= Len(s) /\ s[n + 1] = c THEN n + 1 ELSE n
  IN  IF StartsWith(s, etwa) THEN Len(etwa)
      ELSE IF StartsWith(s, ca) THEN Opt(Len(ca), ".")
      ELSE IF StartsWith(s, circa) THEN Len(circa)
      ELSE IF StartsWith(s, optional) THEN Opt(Len(optional), ":")
      ELSE 0

\* The text after a prefix of length n and the blanks that follow it.
DropPrefix(s, n) == IF n = 0 THEN s ELSE Drop(s, SkipSpaces(s, n + 1))

\* re.sub(r'^(etwa|ca\.?|circa|optional:?)\s*', '', s)
RemovePrefix(s) == DropPrefix(s, PrefixLength(s))

\* cleaned[:100]
KeyLimit == 100

\* s[:KeyLimit]
Truncate(s) == SubSeq(s, 1, IF Len(s) < KeyLimit THEN Len(s) ELSE KeyLimit)

\* re.sub(r'^[\d.,/\s]+', '', s)
StripLeading(s) == Drop(s, SkipLeading(s, 1))

\* The four substitutions and the truncation of normalize_ingredient_key.
NormalizeText(ingredient) ==
  Truncate(RemovePrefix(lower(strip(CollapseSpaces(
    RemoveQuantities(StripLeading(ingredient), 1))))))

(***************************************************************************)
(* Optional values (None of Python, NULL of the database) and dict.get.    *)
(***************************************************************************)
None == <<>>
Some(x) == <<x>>

\* The marker of a key that a dict of the categorizer's answer lacks.
Absent == "<absent>"

\* d.get(key, default) for a field that may be absent.
Get(v, default) == IF v = Absent THEN default ELSE v

(***************************************************************************)
(* The modelled data: texts, recipes, meal plans, pantries.                *)
(***************************************************************************)
T200gLachs == <<"2", "0", "0", "g", " ", "L", "a", "c", "h", "s">>
T300gLachs == <<"3", "0", "0", "g", " ", "L", "a", "c", "h", "s">>
TSalz      == <<"S", "a", "l", "z">>
THalf      == <<"1", "/", "2">>
TLachs     == <<"L", "a", "c", "h", "s">>
T400g      == <<"4", "0", "0", "g">>
TBrot      == <<"B", "r", "o", "t">>
Empty      == <<>>
T2ELOel    == <<"2", " ", "E", "L", " ", "Ö", "l">>
T3ELOel    == <<"3", " ", "E", "L", " ", "Ö", "l">>
TOel       == <<"Ö", "l">>
T5EL       == <<"5", " ", "E", "L">>

\* The texts that occur as ingredient lines, answer names and manual items.
KnownTexts ==
  {T200gLachs, T300gLachs, TSalz, THalf, TLachs, TBrot, Empty, T2ELOel, T3ELOel, TOel}

\* normalize_ingredient_key: NormalizeText, computed once for each known
\* text.
NormalizedKnown == [t \in KnownTexts |-> NormalizeText(t)]

normalize_ingredient_key(ingredient) ==
  IF ingredient \in KnownTexts THEN NormalizedKnown[ingredient]
  ELSE NormalizeText(ingredient)

Households == {1, 2}

\* Recipe rows: id -> title, ingredients.
RecipeIds == {1, 2, 3, 4, 5, 6}

Recipe(id) ==
  IF id = 1 THEN [id |-> 1, title |-> <<"A">>, ingredients |-> <<T200gLachs, TSalz>>]
  ELSE IF id = 2
  THEN [id |-> 2, title |-> <<"B">>, ingredients |-> <<T300gLachs, THalf>>]
  ELSE IF id = 3 THEN [id |-> 3, title |-> <<"C">>, ingredients |-> <<T2ELOel>>]
  ELSE IF id = 4 THEN [id |-> 4, title |-> <<"D">>, ingredients |-> <<T3ELOel>>]
  ELSE IF id = 5
  THEN [id |-> 5, title |-> <<"E">>, ingredients |-> <<T2ELOel, THalf, T3ELOel>>]
  ELSE [id |-> 6, title |-> <<"F">>, ingredients |-> <<TLachs, TSalz>>]

\* The meal plans a request can select with its dates (MealPlan rows of
\* the household, as recipe ids), the empty selection included.
PlanChoices == {<<>>, <<1>>, <<1, 2>>}

\* PantryItem names of each household.
PantryNames(h) == IF h = 1 THEN <<TLachs>> ELSE <<>>

\* The category order of both category_order lists.
category_order ==
  << "Obst & Gemüse", "Fleisch & Fisch", "Eier & Milchprodukte", "Backwaren",
     "Tiefkühl", "Konserven & Fertigprodukte", "Gewürze & Öle", "Getränke",
     "Sonstiges" >>

Range(f) == {f[i] : i \in DOMAIN f}

\* Concatenation of a sequence of sequences.
RECURSIVE Flatten(_)
Flatten(ss) == IF ss = <<>> THEN <<>> ELSE ss[1] \o Flatten(Tail(ss))

(***************************************************************************)
(* generate_shopping_list: collecting and aggregating the ingredients.     *)
(***************************************************************************)
\* all_ingredients: one entry per ingredient line of each planned recipe.
AllIngredients(plans) ==
  LET OfPlan(rid) ==
        LET r == Recipe(rid)
        IN  [i \in 1..Len(r.ingredients) |->
               [ingredient |-> r.ingredients[i], recipe_id |-> r.id,
                recipe_title |-> r.title]]
  IN  Flatten([i \in 1..Len(plans) |-> OfPlan(plans[i])])

\* PutRecipe on a list: an entry for every occurrence.
PutRecipeEvery(recipes, rid, title) == Append(recipes, [id |-> rid, title |-> title])

\* recipes[recipe_id] = recipe_title on an insertion-ordered dict, kept as
\* a sequence of [id, title].
PutRecipe(recipes, rid, title) ==
  IF \E i \in 1..Len(recipes) : recipes[i].id = rid
  THEN [i \in 1..Len(recipes) |->
          IF recipes[i].id = rid THEN [id |-> rid, title |-> title] ELSE recipes[i]]
  ELSE Append(recipes, [id |-> rid, title |-> title])

\* One step of the aggregation loop on ingredient_counts, an
\* insertion-ordered dict kept as a sequence of buckets.
AddKeyed(counts, ing_data, key) ==
  IF key = Empty THEN counts
  ELSE IF \E i \in 1..Len(counts) : counts[i].key = key
  THEN [i \in 1..Len(counts) |->
          IF counts[i].key = key
          THEN [key |-> key,
                ingredients |-> Append(counts[i].ingredients, ing_data.ingredient),
                recipes |-> PutRecipe(counts[i].recipes, ing_data.recipe_id,
                                      ing_data.recipe_title)]
          ELSE counts[i]]
  ELSE Append(counts,
              [key |-> key, ingredients |-> <<ing_data.ingredient>>,
               recipes |-> <<[id |-> ing_data.recipe_id,
                              title |-> ing_data.recipe_title]>>])

\* The step for one entry of all_ingredients.
AddOccurrence(counts, ing_data) ==
  AddKeyed(counts, ing_data, normalize_ingredient_key(ing_data.ingredient))

RECURSIVE AggregateFrom(_, _)
AggregateFrom(counts, all) ==
  IF all = <<>> THEN counts
  ELSE AggregateFrom(AddOccurrence(counts, all[1]), Tail(all))

\* ingredient_counts after the loop over all_ingredients.
Aggregate(all) == AggregateFrom(<<>>, all)

\* InPantry with the pantry never matched.
InPantryNever(key, pantry_names) == FALSE

\* in_pantry = any(p in key or key in p for p in pantry_lower)
InPantry(key, pantry_names) ==
  \E i \in 1..Len(pantry_names) :
    LET p == lower(pantry_names[i]) IN Contains(key, p) \/ Contains(p, key)

\* cached.display_name or key
DisplayOr(display_name, key) == IF display_name = Empty THEN key ELSE display_name

\* IsCached with the lookup lost: every key counts as missed.
IsCachedNever(key, cache_dict) == FALSE

\* key in cache_dict
IsCached(key, cache_dict) == key \in DOMAIN cache_dict

\* UncachedEntry with the last raw text of the bucket.
UncachedEntryLast(b) ==
  [ingredient |-> b.ingredients[Len(b.ingredients)], recipes |-> b.recipes]

\* The entry of uncached_ingredients for a bucket: original_list[0] and
\* the bucket's recipes.
UncachedEntry(b) == [ingredient |-> b.ingredients[1], recipes |-> b.recipes]

\* The loop over ingredient_counts: each bucket goes to basic_items,
\* from_pantry or cached_items when its key is in cache_dict, and to
\* uncached_ingredients otherwise. cache_dict maps a key to its row.
Classify(counts, cache_dict, pantry_names) ==
  LET Hit(b)    == IsCached(b.key, cache_dict)
      Row(b)    == cache_dict[b.key]
      Basic(b)  == Hit(b) /\ Row(b).is_basic
      Pantry(b) == Hit(b) /\ ~Row(b).is_basic /\ InPantry(b.key, pantry_names)
      Plain(b)  == Hit(b) /\ ~Row(b).is_basic /\ ~InPantry(b.key, pantry_names)
      Miss(b)   == ~Hit(b)
      Of(Test(_), Make(_)) ==
        LET sel == SelectSeq(counts, Test)
        IN  [i \in 1..Len(sel) |-> Make(sel[i])]
      MkBasic(b)  == [name |-> DisplayOr(Row(b).display_name, b.key),
                      category |-> Row(b).category, recipes |-> b.recipes]
      MkPantry(b) == [name |-> DisplayOr(Row(b).display_name, b.key),
                      amount |-> Empty, pantry_match |-> b.key,
                      recipes |-> b.recipes]
      MkPlain(b)  == [name |-> DisplayOr(Row(b).display_name, b.key),
                      amount |-> Empty, category |-> Row(b).category,
                      original_items |-> b.ingredients, recipes |-> b.recipes]
      MkMiss(b)   == UncachedEntry(b)
  IN  [basic_items |-> Of(Basic, MkBasic),
       from_pantry |-> Of(Pantry, MkPantry),
       cached_items |-> Of(Plain, MkPlain),
       uncached_ingredients |-> Of(Miss, MkMiss)]

(***************************************************************************)
(* Grouping by category in the fixed order (both modules do it the same    *)
(* way: a dict of lists, then one group per name of category_order that    *)
(* is a key of the dict).                                                  *)
(***************************************************************************)
\* GroupSorted without the test "cat in categorized": a group for every
\* name of category_order.
GroupEvery(items) ==
  [i \in 1..Len(category_order) |->
     [name  |-> category_order[i],
      items |-> LET In(it) == Get(it.category, "Sonstiges") = category_order[i]
                IN  SelectSeq(items, In)]]

GroupSorted(items) ==
  LET CatOf(item) == Get(item.category, "Sonstiges")
      Has(cat)    == \E i \in 1..Len(items) : CatOf(items[i]) = cat
      cats        == SelectSeq(category_order, Has)
  IN  [i \in 1..Len(cats) |->
         [name  |-> cats[i],
          items |-> LET In(it) == CatOf(it) = cats[i] IN SelectSeq(items, In)]]

(***************************************************************************)
(* claude_ai.process_shopping_list                                         *)
(***************************************************************************)
\* The parsed answer on the success path: shopping_items grouped by
\* item.get("category", "Sonstiges") and emitted in category_order.
ProcessedAnswer(result) ==
  [categories  |-> GroupSorted(result.shopping_items),
   from_pantry |-> result.from_pantry,
   basic_items |-> result.basic_items]

\* FallbackAnswer with the unprocessed list lost: an empty result.
FallbackNothing(ingredients) ==
  [categories |-> <<>>, from_pantry |-> <<>>, basic_items |-> <<>>]

\* The except branch: every ingredient under "Sonstiges", unprocessed.
FallbackAnswer(ingredients) ==
  [categories  |-> << [name  |-> "Sonstiges",
                       items |-> [i \in 1..Len(ingredients) |->
                                    [name |-> ingredients[i], amount |-> Empty,
                                     category |-> "Sonstiges"]]] >>,
   from_pantry |-> <<>>,
   basic_items |-> <<>>]

\* The value process_shopping_list returns: answer.ok tells whether the
\* call and the parsing of its text succeeded.
process_shopping_list(ingredients, answer) ==
  IF answer.ok THEN ProcessedAnswer(answer) ELSE FallbackAnswer(ingredients)

(***************************************************************************)
(* generate_shopping_list: the categorizer's answer.                       *)
(***************************************************************************)
\* uncached_recipe_map, an insertion-ordered dict kept as a sequence of
\* [key, recipes].
PutKey(map, key, recipes) ==
  IF \E i \in 1..Len(map) : map[i].key = key
  THEN [i \in 1..Len(map) |->
          IF map[i].key = key THEN [key |-> key, recipes |-> recipes] ELSE map[i]]
  ELSE Append(map, [key |-> key, recipes |-> recipes])

\* if key: uncached_recipe_map[key] = uc["recipes"]
PutIfKey(map, key, recipes) == IF key # Empty THEN PutKey(map, key, recipes) ELSE map

RECURSIVE RecipeMapFrom(_, _)
RecipeMapFrom(map, uncached) ==
  IF uncached = <<>> THEN map
  ELSE RecipeMapFrom(PutIfKey(map, normalize_ingredient_key(uncached[1].ingredient),
                              uncached[1].recipes),
                     Tail(uncached))

UncachedRecipeMap(uncached) == RecipeMapFrom(<<>>, uncached)

\* The test of one entry of the loop: both texts of length >= 4, and one
\* contains the other or their first words are equal.
FuzzyMatch(key, item_key) ==
  /\ Len(key) >= 4 /\ Len(item_key) >= 4
  /\ (\/ Contains(item_key, key)
      \/ Contains(key, item_key)
      \/ FirstWord(key) = FirstWord(item_key))

\* FuzzyFrom returning the loop variable after the loop: the recipes of the
\* last entry when no entry matches.
RECURSIVE FuzzyFromLast(_, _, _)
FuzzyFromLast(map, item_key, i) ==
  IF i > Len(map) THEN (IF map = <<>> THEN <<>> ELSE map[Len(map)].recipes)
  ELSE IF FuzzyMatch(map[i].key, item_key) THEN map[i].recipes
  ELSE FuzzyFromLast(map, item_key, i + 1)

\* The loop of find_recipes_for_item over uncached_recipe_map from entry i:
\* the first entry that matches decides.
RECURSIVE FuzzyFrom(_, _, _)
FuzzyFrom(map, item_key, i) ==
  IF i > Len(map) THEN <<>>
  ELSE IF FuzzyMatch(map[i].key, item_key) THEN map[i].recipes
  ELSE FuzzyFrom(map, item_key, i + 1)

\* FindByKey without the direct match: the loop alone.
FindByKeyLoopOnly(item_key, map) == FuzzyFrom(map, item_key, 1)

\* find_recipes_for_item from item_key on.
FindByKey(item_key, map) ==
  IF \E i \in 1..Len(map) : map[i].key = item_key
  THEN (CHOOSE e \in Range(map) : e.key = item_key).recipes
  ELSE FuzzyFrom(map, item_key, 1)

\* The recipes attributed to an item of the answer.
find_recipes_for_item(item_name, map) ==
  FindByKey(normalize_ingredient_key(item_name), map)

\* CacheRowFor without the test "key not in cache_dict".
CacheRowAlways(h, cache_dict, name, category, is_basic) ==
  IF normalize_ingredient_key(name) # Empty
  THEN << [household_id |-> h, ingredient_key |-> normalize_ingredient_key(name),
           category |-> category, display_name |-> name, is_basic |-> is_basic] >>
  ELSE <<>>

\* CacheRowKeyed without the test "if key": a row for an empty key too.
CacheRowKeyedAnyKey(h, cache_dict, key, name, category, is_basic) ==
  IF ~IsCached(key, cache_dict)
  THEN << [household_id |-> h, ingredient_key |-> key, category |-> category,
           display_name |-> name, is_basic |-> is_basic] >>
  ELSE <<>>

\* The IngredientCache row added for an answer item, none when the
\* item's key is empty or a key of cache_dict.
CacheRowKeyed(h, cache_dict, key, name, category, is_basic) ==
  IF key # Empty /\ ~IsCached(key, cache_dict)
  THEN << [household_id |-> h, ingredient_key |-> key, category |-> category,
           display_name |-> name, is_basic |-> is_basic] >>
  ELSE <<>>

\* key = normalize_ingredient_key(item.get("name", "")), then the test and
\* the row.
CacheRowFor(h, cache_dict, name, category, is_basic) ==
  CacheRowKeyed(h, cache_dict, normalize_ingredient_key(name), name, category, is_basic)

\* The two loops over smart_list and the extension of from_pantry: the
\* rows handed to db.add, new_items, and the grown basic_items and
\* from_pantry.
TakeAnswer(h, cache_dict, uncached, basic_items, from_pantry, smart_list) ==
  LET map == UncachedRecipeMap(uncached)
      CatRows(c)  == LET R(item) == CacheRowFor(h, cache_dict, item.name, c.name, FALSE)
                     IN  Flatten([i \in 1..Len(c.items) |-> R(c.items[i])])
      CatItems(c) == [i \in 1..Len(c.items) |->
                        [name     |-> c.items[i].name,
                         amount   |-> c.items[i].amount,
                         category |-> c.name,
                         recipes  |-> find_recipes_for_item(c.items[i].name, map)]]
      BasicRow(item) == CacheRowFor(h, cache_dict, item.name,
                                    Get(item.category, "Gewürze & Öle"), TRUE)
      basics == [i \in 1..Len(smart_list.basic_items) |->
                   [name     |-> smart_list.basic_items[i].name,
                    category |-> smart_list.basic_items[i].category,
                    recipes  |-> find_recipes_for_item(smart_list.basic_items[i].name,
                                                       map)]]
      Over(list, F(_)) == Flatten([i \in 1..Len(list) |-> F(list[i])])
  IN  [added       |-> Over(smart_list.categories, CatRows)
                         \o Over(smart_list.basic_items, BasicRow),
       new_items   |-> Over(smart_list.categories, CatItems),
       basic_items |-> basic_items \o basics,
       from_pantry |-> from_pantry \o smart_list.from_pantry]

(***************************************************************************)
(* generate_shopping_list: composing and persisting the list.              *)
(***************************************************************************)
\* sorted_categories of cached_items + new_items.
SortedCategories(cached_items, new_items) ==
  GroupSorted(cached_items \o new_items)

\* ", ".join(r["title"] for r in recipes)
RECURSIVE JoinTitles(_)
JoinTitles(recipes) ==
  IF Len(recipes) = 1 THEN recipes[1].title
  ELSE recipes[1].title \o <<",", " ">> \o JoinTitles(Tail(recipes))

\* ShoppingRow with recipe_title taken from the first recipe alone.
ShoppingRowFirstTitle(h, category_name, item) ==
  [household_id |-> h,
   name         |-> strip(item.amount \o <<" ">> \o item.name),
   category     |-> category_name,
   checked      |-> FALSE,
   recipe_id    |-> IF item.recipes # <<>> THEN Some(item.recipes[1].id) ELSE None,
   recipe_title |-> IF item.recipes # <<>> THEN Some(item.recipes[1].title) ELSE None]

\* The ShoppingItem row of one item of a group; checked takes the column
\* default.
ShoppingRow(h, category_name, item) ==
  [household_id |-> h,
   name         |-> strip(item.amount \o <<" ">> \o item.name),
   category     |-> category_name,
   checked      |-> FALSE,
   recipe_id    |-> IF item.recipes # <<>> THEN Some(item.recipes[1].id) ELSE None,
   recipe_title |-> IF item.recipes # <<>> THEN Some(JoinTitles(item.recipes)) ELSE None]

\* The rows handed to db.add by the rebuild loop, in order.
ShoppingRows(h, sorted_categories) ==
  LET OfGroup(c) == [i \in 1..Len(c.items) |-> ShoppingRow(h, c.name, c.items[i])]
  IN  Flatten([i \in 1..Len(sorted_categories) |-> OfGroup(sorted_categories[i])])

\* The bag of the elements of a sequence.
RECURSIVE SeqToBag(_)
SeqToBag(s) ==
  IF s = <<>> THEN EmptyBag ELSE SetToBag({s[1]}) (+) SeqToBag(Tail(s))

\* The rows of a table (a bag of rows) that belong to household h.
RowsOf(table, h) ==
  LET keep == {r \in BagToSet(table) : r.household_id = h}
  IN  [r \in keep |-> table[r]]

(***************************************************************************)
(* The categorizer's answers.                                              *)
(***************************************************************************)
\* The items an answer is built from, each with the list of the JSON
\* object it stands in.
AnswerItems ==
  { [list |-> "shopping_items",
     item |-> [name |-> TLachs, amount |-> T400g, category |-> "Fleisch & Fisch"]],
    [list |-> "shopping_items",
     item |-> [name |-> TSalz, amount |-> Empty, category |-> "Exotisch"]],
    [list |-> "basic_items",
     item |-> [name |-> TSalz, category |-> "Gewürze & Öle"]] }

\* The most items in one answer.
MaxAnswerItems == 2

\* The parsed JSON object of an answer made of the tagged items t.
AnswerOf(t) ==
  LET Of(l) == LET In(x) == x.list = l
                   sel == SelectSeq(t, In)
               IN  [i \in 1..Len(sel) |-> sel[i].item]
  IN  [ok |-> TRUE, shopping_items |-> Of("shopping_items"),
       from_pantry |-> Of("from_pantry"), basic_items |-> Of("basic_items")]

Answers ==
  { AnswerOf(t) : t \in UNION { [1..n -> AnswerItems] : n \in 0..MaxAnswerItems } }

\* A call that raised, timed out or answered with text that is no JSON.
FailedAnswer ==
  [ok |-> FALSE, shopping_items |-> <<>>, from_pantry |-> <<>>, basic_items |-> <<>>]

(***************************************************************************)
(* State.                                                                  *)
(*   cache    the ingredient_cache table, a bag of rows                    *)
(*   shopping the shopping_items table, a bag of rows                      *)
(*   pc, loc  where each request of generate_shopping_list stands and its  *)
(*            local variables; loc.outcome is "none" before the call of     *)
(*            process_shopping_list, "calling" during it, then "answer",    *)
(*            "fallback" or "raised"; loc.calls counts the request's calls  *)
(*            of client.messages.create                                     *)
(*   runs     the generation requests started so far                       *)
(*   edits    the other shopping and cache requests served so far          *)
(*   probe    the arguments and the result of one call of a function of    *)
(*            the code taken alone; while requests are served, the      *)
(*            response of clear_ingredient_cache until the next request,   *)
(*            NoProbe otherwise                                            *)
(***************************************************************************)
Procs == {1, 2}

\* The most generation requests and the most other requests of a run.
MaxRuns == 3
MaxEdits == 1

IdleLoc ==
  [household_id |-> 0, plans |-> <<>>, cache_dict |-> <<>>,
   ingredient_counts |-> <<>>, cached_items |-> <<>>,
   uncached_ingredients |-> <<>>, ingredient_strings |-> <<>>,
   outcome |-> "none", calls |-> 0, answer |-> <<>>, added |-> <<>>,
   new_items |-> <<>>, basic_items |-> <<>>, from_pantry |-> <<>>,
   sorted_categories |-> <<>>, deleted |-> EmptyBag, db_rows |-> <<>>,
   items |-> EmptyBag]

NoProbe == [op |-> "none"]

Init ==
  /\ cache = EmptyBag
  /\ shopping = EmptyBag
  /\ pc = [p \in Procs |-> "idle"]
  /\ loc = [p \in Procs |-> IdleLoc]
  /\ runs = 0
  /\ edits = 0
  /\ probe = NoProbe

\* cache_dict = {c.ingredient_key: c for c in cache_entries}: one row per
\* key. The query has no ORDER BY, so with several rows of one key any
\* of them can come last and be the one the dict keeps.
CacheDicts(rows) ==
  LET keys == {r.ingredient_key : r \in rows}
  IN  {d \in [keys -> rows] : \A k \in keys : d[k].ingredient_key = k}

\* DeleteInTransaction with a commit right after the DELETE.
DeleteCommitted(table, h) == table (-) RowsOf(table, h)

\* db.query(ShoppingItem).filter(household_id == h).delete() inside the
\* session's transaction: the committed table is as before until
\* db.commit().
DeleteInTransaction(table, h) == table

\* The locals after sorted_categories is built and the DELETE of the
\* rebuild is issued.
Composed(l, h, table) ==
  LET sorted == SortedCategories(l.cached_items, l.new_items)
  IN  [l EXCEPT !.sorted_categories = sorted,
                !.deleted = RowsOf(table, h),
                !.db_rows = ShoppingRows(h, sorted)]

\* GenEmpty with the early return lost: the categorizer is called with no
\* sample.
GenEmptyCalls(p, h, plans) ==
  /\ shopping' = shopping
  /\ cache' = cache
  /\ pc' = [pc EXCEPT ![p] = "await"]
  /\ loc' = [loc EXCEPT ![p] = [IdleLoc EXCEPT !.household_id = h, !.plans = plans,
                                               !.outcome = "calling"]]

\* "if not all_ingredients": the household's rows of the shopping table are
\* deleted, the deletion is committed and four empty lists are returned.
GenEmpty(p, h, plans) ==
  /\ shopping' = shopping (-) RowsOf(shopping, h)
  /\ cache' = cache
  /\ pc' = [pc EXCEPT ![p] = "done"]
  /\ loc' = [loc EXCEPT ![p] = [IdleLoc EXCEPT !.household_id = h, !.plans = plans]]

\* The request up to the call of process_shopping_list, or to the end
\* when no ingredient is planned, or to the DELETE of the rebuild when
\* every key is cached.
GenLoad(p, h, plans) ==
  /\ pc[p] = "idle"
  /\ runs < MaxRuns
  /\ runs' = runs + 1
  /\ probe' = NoProbe
  /\ UNCHANGED edits
  /\ LET all == AllIngredients(plans)
         l0  == [IdleLoc EXCEPT !.household_id = h, !.plans = plans]
     IN  IF all = <<>>
         THEN GenEmpty(p, h, plans)
         ELSE \E cache_dict \in CacheDicts(BagToSet(RowsOf(cache, h))) :
                LET counts == Aggregate(all)
                    cl == Classify(counts, cache_dict, PantryNames(h))
                    l1 == [l0 EXCEPT
                             !.cache_dict = cache_dict,
                             !.ingredient_counts = counts,
                             !.cached_items = cl.cached_items,
                             !.uncached_ingredients = cl.uncached_ingredients,
                             !.basic_items = cl.basic_items,
                             !.from_pantry = cl.from_pantry]
                IN  IF cl.uncached_ingredients = <<>>
                    THEN /\ cache' = cache
                         /\ shopping' = DeleteInTransaction(shopping, h)
                         /\ pc' = [pc EXCEPT ![p] = "rebuild"]
                         /\ loc' = [loc EXCEPT ![p] = Composed(l1, h, shopping)]
                    ELSE /\ cache' = cache
                         /\ shopping' = shopping
                         /\ pc' = [pc EXCEPT ![p] = "await"]
                         /\ loc' = [loc EXCEPT ![p] =
                              [l1 EXCEPT
                                 !.outcome = "calling",
                                 !.calls = l1.calls + 1,
                                 !.ingredient_strings =
                                    [i \in 1..Len(cl.uncached_ingredients) |->
                                       cl.uncached_ingredients[i].ingredient]]]

\* From the return of process_shopping_list to the DELETE of the rebuild:
\* the rows of the answer are added and committed, the list is composed.
Categorized(p, answer) ==
  LET l == loc[p]
      h == l.household_id
      smart_list == process_shopping_list(l.ingredient_strings, answer)
      t == TakeAnswer(h, l.cache_dict, l.uncached_ingredients, l.basic_items,
                      l.from_pantry, smart_list)
      l1 == [l EXCEPT !.outcome = IF answer.ok THEN "answer" ELSE "fallback",
                      !.answer = answer, !.added = t.added,
                      !.new_items = t.new_items, !.basic_items = t.basic_items,
                      !.from_pantry = t.from_pantry]
  IN  /\ pc[p] = "await"
      /\ cache' = cache (+) SeqToBag(t.added)
      /\ shopping' = DeleteInTransaction(shopping, h)
      /\ pc' = [pc EXCEPT ![p] = "rebuild"]
      /\ loc' = [loc EXCEPT ![p] = Composed(l1, h, shopping)]
      /\ UNCHANGED <<probe, runs, edits>>

\* The categorizer answered with a JSON object.
GenAnswer(p, answer) == answer.ok /\ Categorized(p, answer)

\* GenFallback with the call made again after its first failure.
GenFallbackRetry(p) ==
  IF loc[p].calls < 2
  THEN /\ pc[p] = "await"
       /\ loc' = [loc EXCEPT ![p].calls = loc[p].calls + 1]
       /\ UNCHANGED <<probe, cache, shopping, pc, runs, edits>>
  ELSE Categorized(p, FailedAnswer)

\* The call failed: process_shopping_list returned its fallback.
GenFallback(p) == Categorized(p, FailedAnswer)

\* The answer parsed but made the loops over it raise (a null where a list
\* or a text is expected): the request ends before the commit of the cache
\* rows, and the session is rolled back.
GenRaise(p) ==
  /\ pc[p] = "await"
  /\ pc' = [pc EXCEPT ![p] = "failed"]
  /\ loc' = [loc EXCEPT ![p].outcome = "raised"]
  /\ UNCHANGED <<probe, cache, shopping, runs, edits>>

\* Rebuilt without the DELETE: the new rows join the old ones.
RebuiltMerged(table, deleted, rows) == table (+) SeqToBag(rows)

\* The committed table after db.commit() of the rebuild: the rows the
\* DELETE found are gone and the rows handed to db.add are there.
Rebuilt(table, deleted, rows) == (table (-) deleted) (+) SeqToBag(rows)

\* The rows of the rebuild are flushed and committed with the DELETE.
GenCommit(p) ==
  /\ pc[p] = "rebuild"
  /\ shopping' = Rebuilt(shopping, loc[p].deleted, loc[p].db_rows)
  /\ pc' = [pc EXCEPT ![p] = "done"]
  /\ loc' = [loc EXCEPT ![p].items = RowsOf(shopping', loc[p].household_id)]
  /\ UNCHANGED <<probe, cache, runs, edits>>

\* The flush of the rebuild raised (a text longer than its column): the
\* request ends and the session, with its DELETE, is rolled back.
GenCommitFail(p) ==
  /\ pc[p] = "rebuild"
  /\ pc' = [pc EXCEPT ![p] = "failed"]
  /\ UNCHANGED <<probe, cache, shopping, loc, runs, edits>>

\* The response is sent; the request's locals are gone.
Return(p) ==
  /\ pc[p] \in {"done", "failed"}
  /\ pc' = [pc EXCEPT ![p] = "idle"]
  /\ loc' = [loc EXCEPT ![p] = IdleLoc]
  /\ UNCHANGED <<probe, cache, shopping, runs, edits>>

(***************************************************************************)
(* The other endpoints on the two tables.                                  *)
(***************************************************************************)
NoRequest == \A p \in Procs : pc[p] = "idle"

Edit == edits < MaxEdits /\ edits' = edits + 1

\* The texts a user adds by hand.
ManualNames == {TBrot}

add_shopping_item(h, name) ==
  /\ Edit
  /\ shopping' = shopping (+) SetToBag({[household_id |-> h, name |-> name,
                                         category |-> "Sonstiges", checked |-> FALSE,
                                         recipe_id |-> None, recipe_title |-> None]})
  /\ probe' = NoProbe
  /\ UNCHANGED <<cache, pc, loc, runs>>

toggle_shopping_item(h, row) ==
  /\ Edit
  /\ BagIn(row, shopping) /\ row.household_id = h
  /\ shopping' = (shopping (-) SetToBag({row}))
                   (+) SetToBag({[row EXCEPT !.checked = ~row.checked]})
  /\ probe' = NoProbe
  /\ UNCHANGED <<cache, pc, loc, runs>>

delete_shopping_item(h, row) ==
  /\ Edit
  /\ BagIn(row, shopping) /\ row.household_id = h
  /\ shopping' = shopping (-) SetToBag({row})
  /\ probe' = NoProbe
  /\ UNCHANGED <<cache, pc, loc, runs>>

\* clear_shopping_list without the filter on household_id.
clear_shopping_listAll(h) ==
  /\ Edit
  /\ shopping' = EmptyBag
  /\ probe' = NoProbe
  /\ UNCHANGED <<cache, pc, loc, runs>>

clear_shopping_list(h) ==
  /\ Edit
  /\ shopping' = shopping (-) RowsOf(shopping, h)
  /\ probe' = NoProbe
  /\ UNCHANGED <<cache, pc, loc, runs>>

\* clear_ingredient_cache answering with the number of rows and deleting
\* none.
clear_ingredient_cacheKeeps(h) ==
  /\ Edit
  /\ cache' = cache
  /\ probe' = [op |-> "deleted", household_id |-> h,
               deleted |-> BagCardinality(RowsOf(cache, h))]
  /\ UNCHANGED <<shopping, pc, loc, runs>>

\* The household's rows are deleted and the deletion is committed; the
\* response, kept in probe, holds the number of rows deleted.
clear_ingredient_cache(h) ==
  /\ Edit
  /\ cache' = cache (-) RowsOf(cache, h)
  /\ probe' = [op |-> "deleted", household_id |-> h,
               deleted |-> BagCardinality(RowsOf(cache, h))]
  /\ UNCHANGED <<shopping, pc, loc, runs>>

(***************************************************************************)
(* Requests served one after another.                                      *)
(***************************************************************************)
\* The household whose requests are followed.
Served == {1}

Next ==
  \/ \E h \in Served, plans \in PlanChoices : NoRequest /\ GenLoad(1, h, plans)
  \/ \E answer \in Answers : GenAnswer(1, answer)
  \/ GenFallback(1)
  \/ GenRaise(1)
  \/ GenCommit(1)
  \/ GenCommitFail(1)
  \/ Return(1)
  \/ \E h \in Served, name \in ManualNames : NoRequest /\ add_shopping_item(h, name)
  \/ \E h \in Served, row \in BagToSet(shopping) :
       NoRequest /\ toggle_shopping_item(h, row)
  \/ \E h \in Served, row \in BagToSet(shopping) :
       NoRequest /\ delete_shopping_item(h, row)
  \/ \E h \in Served : NoRequest /\ clear_shopping_list(h)
  \/ \E h \in Served : NoRequest /\ clear_ingredient_cache(h)

Spec == Init /\ [][Next]_vars

(***************************************************************************)
(* Requests of one household served by two workers at once: each worker    *)
(* has its own session, and the tables hold what has been committed.       *)
(***************************************************************************)
\* The answers of the categorizer that hold one item.
SingleAnswers == { AnswerOf(<<x>>) : x \in AnswerItems }

NextConc ==
  \/ \E p \in Procs, h \in Served : GenLoad(p, h, <<1>>)
  \/ \E p \in Procs, answer \in SingleAnswers : GenAnswer(p, answer)
  \/ \E p \in Procs : GenFallback(p)
  \/ \E p \in Procs : GenRaise(p)
  \/ \E p \in Procs : GenCommit(p)
  \/ \E p \in Procs : GenCommitFail(p)
  \/ \E p \in Procs : Return(p)

SpecConc == Init /\ [][NextConc]_vars

(***************************************************************************)
(* A request of a household served after another one has returned, the     *)
(* first one's result kept for comparison: request 2 starts when request 1  *)
(* has returned its result, and no other request is served between them.    *)
(***************************************************************************)
\* The items of the categorizer's answers here: salt as an item to buy and
\* as a basic item.
RepeatItems ==
  { [list |-> "shopping_items",
     item |-> [name |-> TSalz, amount |-> Empty, category |-> "Gewürze & Öle"]],
    [list |-> "basic_items",
     item |-> [name |-> TSalz, category |-> "Gewürze & Öle"]] }

RepeatAnswers ==
  { AnswerOf(t) : t \in UNION { [1..n -> RepeatItems] : n \in 0..2 } }

NextRepeat ==
  \/ \E h \in Served : pc[2] = "idle" /\ GenLoad(1, h, <<1>>)
  \/ \E h \in Served : pc[1] = "done" /\ GenLoad(2, h, <<1>>)
  \/ \E p \in Procs, answer \in RepeatAnswers : GenAnswer(p, answer)
  \/ \E p \in Procs : GenFallback(p)
  \/ \E p \in Procs : GenRaise(p)
  \/ \E p \in Procs : GenCommit(p)
  \/ \E p \in Procs : GenCommitFail(p)
  \/ pc[2] \in {"idle", "done", "failed"} /\ Return(1)
  \/ pc[1] = "idle" /\ Return(2)

SpecRepeat == Init /\ [][NextRepeat]_vars

(***************************************************************************)
(* Requests whose plans hold the same ingredient in two recipes, answered   *)
(* with items that match a key of the request, with items that match none   *)
(* and with an item without a name.                                         *)
(***************************************************************************)
AttributionItems ==
  { [list |-> "shopping_items",
     item |-> [name |-> TLachs, amount |-> T400g, category |-> "Fleisch & Fisch"]],
    [list |-> "shopping_items",
     item |-> [name |-> TOel, amount |-> T5EL, category |-> "Gewürze & Öle"]],
    [list |-> "shopping_items",
     item |-> [name |-> TBrot, amount |-> Empty, category |-> "Backwaren"]],
    [list |-> "shopping_items",
     item |-> [name |-> Empty, amount |-> Empty, category |-> "Sonstiges"]] }

AttributionAnswers ==
  { AnswerOf(t) : t \in UNION { [1..n -> AttributionItems] : n \in 0..2 } }

AttributionPlans == {<<1, 2>>, <<3, 4>>}

\* The most requests followed here.
MaxAttributionRuns == 2

NextAttribution ==
  \/ \E h \in Served, plans \in AttributionPlans :
       runs < MaxAttributionRuns /\ NoRequest /\ GenLoad(1, h, plans)
  \/ \E answer \in AttributionAnswers : GenAnswer(1, answer)
  \/ GenFallback(1)
  \/ GenRaise(1)
  \/ GenCommit(1)
  \/ GenCommitFail(1)
  \/ Return(1)

SpecAttribution == Init /\ [][NextAttribution]_vars

(***************************************************************************)
(* Requests whose ingredients are found in the cache on a later request:   *)
(* the answers name the ingredient lines themselves, as items to buy and   *)
(* as basic items, and the household has one of them in its pantry.        *)
(***************************************************************************)
PlacementItems ==
  { [list |-> "shopping_items",
     item |-> [name |-> TLachs, amount |-> T400g, category |-> "Fleisch & Fisch"]],
    [list |-> "basic_items",
     item |-> [name |-> TLachs, category |-> "Fleisch & Fisch"]],
    [list |-> "shopping_items",
     item |-> [name |-> TSalz, amount |-> Empty, category |-> "Exotisch"]],
    [list |-> "shopping_items",
     item |-> [name |-> TSalz, amount |-> Empty, category |-> "Gewürze & Öle"]],
    [list |-> "basic_items",
     item |-> [name |-> TSalz, category |-> "Gewürze & Öle"]] }

PlacementAnswers ==
  { AnswerOf(t) : t \in UNION { [1..n -> PlacementItems] : n \in 0..2 } }

PlacementPlans == {<<6>>, <<1, 6>>}

\* The most requests followed here.
MaxPlacementRuns == 2

NextPlacement ==
  \/ \E h \in Served, plans \in PlacementPlans :
       runs < MaxPlacementRuns /\ NoRequest /\ GenLoad(1, h, plans)
  \/ \E answer \in PlacementAnswers : GenAnswer(1, answer)
  \/ GenFallback(1)
  \/ GenRaise(1)
  \/ GenCommit(1)
  \/ GenCommitFail(1)
  \/ Return(1)

SpecPlacement == Init /\ [][NextPlacement]_vars

(***************************************************************************)
(* A request of a household served right after another one for the same    *)
(* plans, the first one's result kept for comparison; the answers name the  *)
(* ingredient lines themselves, with and without an amount.                 *)
(***************************************************************************)
RegenerateItems ==
  { [list |-> "shopping_items",
     item |-> [name |-> TSalz, amount |-> T5EL, category |-> "Gewürze & Öle"]],
    [list |-> "shopping_items",
     item |-> [name |-> TSalz, amount |-> Empty, category |-> "Gewürze & Öle"]],
    [list |-> "shopping_items",
     item |-> [name |-> TLachs, amount |-> T400g, category |-> "Fleisch & Fisch"]] }

RegenerateAnswers ==
  { AnswerOf(t) : t \in UNION { [1..n -> RegenerateItems] : n \in 0..2 } }

NextRegenerate ==
  \/ \E h \in Served : pc[2] = "idle" /\ GenLoad(1, h, <<6>>)
  \/ \E h \in Served : pc[1] = "done" /\ GenLoad(2, h, <<6>>)
  \/ \E p \in Procs, answer \in RegenerateAnswers : GenAnswer(p, answer)
  \/ \E p \in Procs : GenFallback(p)
  \/ \E p \in Procs : GenRaise(p)
  \/ \E p \in Procs : GenCommit(p)
  \/ \E p \in Procs : GenCommitFail(p)
  \/ pc[2] \in {"idle", "done", "failed"} /\ Return(1)
  \/ pc[1] = "idle" /\ Return(2)

SpecRegenerate == Init /\ [][NextRegenerate]_vars

(***************************************************************************)
(* Requests of two households served one after another: household 1 has    *)
(* salmon in its pantry, household 2 has an empty pantry, and both plan     *)
(* the same recipe.                                                         *)
(***************************************************************************)
\* The answers of the categorizer that hold one item of PlacementItems.
HouseholdAnswers == { AnswerOf(<<x>>) : x \in PlacementItems }

\* The most generation requests followed here.
MaxHouseholdRuns == 2

NextHouseholds ==
  \/ \E h \in Households :
       runs < MaxHouseholdRuns /\ NoRequest /\ GenLoad(1, h, <<6>>)
  \/ \E answer \in HouseholdAnswers : GenAnswer(1, answer)
  \/ GenFallback(1)
  \/ GenRaise(1)
  \/ GenCommit(1)
  \/ GenCommitFail(1)
  \/ Return(1)
  \/ \E h \in Households, name \in ManualNames :
       NoRequest /\ add_shopping_item(h, name)
  \/ \E h \in Households, row \in BagToSet(shopping) :
       NoRequest /\ toggle_shopping_item(h, row)
  \/ \E h \in Households, row \in BagToSet(shopping) :
       NoRequest /\ delete_shopping_item(h, row)
  \/ \E h \in Households : NoRequest /\ clear_shopping_list(h)
  \/ \E h \in Households : NoRequest /\ clear_ingredient_cache(h)

SpecHouseholds == Init /\ [][NextHouseholds]_vars

(***************************************************************************)
(* normalize_ingredient_key taken alone, on two ingredient lines.           *)
(***************************************************************************)
\* The parts of an ingredient line: a quantity, a unit as it is written
\* after the quantity, and the ingredient's name.
LineQuantities == {<<"2", "0", "0">>, <<"3">>}
LineUnits == {<<"g">>, <<" ", "E", "L">>}
LineNames ==
  {<<"T", "o", "m", "a", "t", "e", "n">>, <<"t", "o", "m", "a", "t", "e", "n">>,
   <<"T", "O", "M", "A", "T", "E", "N">>, <<"R", "e", "i", "s">>}

\* The lines: a name alone, a quantity and a name, or a quantity, a unit and
\* a name ("Tomaten", "3 Tomaten", "200g Tomaten", "200 EL Tomaten").
Lines ==
  [quantity : {Empty}, unit : {Empty}, name : LineNames]
    \cup [quantity : LineQuantities, unit : {Empty} \cup LineUnits, name : LineNames]

\* The text of a line.
LineText(line) ==
  IF line.quantity = Empty THEN line.name
  ELSE line.quantity \o line.unit \o <<" ">> \o line.name

InitNormalize ==
  /\ cache = EmptyBag
  /\ shopping = EmptyBag
  /\ pc = [p \in Procs |-> "idle"]
  /\ loc = [p \in Procs |-> IdleLoc]
  /\ runs = 0
  /\ edits = 0
  /\ probe \in {[op |-> "lines", a |-> x, b |-> y] : x \in Lines, y \in Lines}

\* normalize_ingredient_key is called on the text of each of the two lines.
NormalizePair ==
  /\ probe.op = "lines"
  /\ probe' = [op |-> "keys", a |-> probe.a, b |-> probe.b,
               key_a |-> normalize_ingredient_key(LineText(probe.a)),
               key_b |-> normalize_ingredient_key(LineText(probe.b))]
  /\ UNCHANGED <<cache, shopping, pc, loc, runs, edits>>

NextNormalize == NormalizePair

SpecNormalize == InitNormalize /\ [][NextNormalize]_vars

(***************************************************************************)
(* The composition of sorted_categories taken alone, on the items served    *)
(* from the cache and the items of the categorizer's answer.                *)
(***************************************************************************)
\* The categories of the items: names of category_order and one that is
\* none.
ComposeCategories == {"Getränke", "Obst & Gemüse", "Sonstiges", "Backwaren", "Exotisch"}

\* The most items served from the cache and the most new items.
MaxCachedItems == 1
MaxNewItems == 2

ComposeItem(c) == [name |-> TSalz, amount |-> Empty, category |-> c, recipes |-> <<>>]

ComposeLists(n) ==
  UNION { [1..k -> {ComposeItem(c) : c \in ComposeCategories}] : k \in 0..n }

InitCompose ==
  /\ cache = EmptyBag
  /\ shopping = EmptyBag
  /\ pc = [p \in Procs |-> "idle"]
  /\ loc = [p \in Procs |-> IdleLoc]
  /\ runs = 0
  /\ edits = 0
  /\ probe \in {[op |-> "items", cached_items |-> x, new_items |-> y] :
                   x \in ComposeLists(MaxCachedItems), y \in ComposeLists(MaxNewItems)}

\* all_shopping_items is grouped and the groups are put in order.
Compose ==
  /\ probe.op = "items"
  /\ probe' = [op |-> "categories", cached_items |-> probe.cached_items,
               new_items |-> probe.new_items,
               sorted_categories |->
                 SortedCategories(probe.cached_items, probe.new_items)]
  /\ UNCHANGED <<cache, shopping, pc, loc, runs, edits>>

NextCompose == Compose

SpecCompose == InitCompose /\ [][NextCompose]_vars

(***************************************************************************)
(* find_recipes_for_item taken alone, on the uncached ingredients of a     *)
(* request and the name of one item of the answer.                         *)
(***************************************************************************)
TRoteLinsen == <<"R", "o", "t", "e", " ", "L", "i", "n", "s", "e", "n">>
TBete       == <<"B", "e", "t", "e">>
T2Ei        == <<"2", " ", "E", "i">>
TRoteBete   == <<"r", "o", "t", "e", " ", "B", "e", "t", "e">>
TEiL        == <<"E", "i", " ", "L">>
TLachsfilet == <<"L", "a", "c", "h", "s", "f", "i", "l", "e", "t">>

\* The most uncached ingredients of one request.
MaxSourceLines == 2

\* Entries of uncached_ingredients: the ingredient line of a key met for
\* the first time, with the recipes that use the key.
FindSources ==
  { [ingredient |-> TRoteLinsen, recipes |-> <<[id |-> 1, title |-> <<"A">>]>>],
    [ingredient |-> TBete,       recipes |-> <<[id |-> 2, title |-> <<"B">>]>>],
    [ingredient |-> T2Ei,        recipes |-> <<[id |-> 3, title |-> <<"C">>]>>],
    [ingredient |-> TLachs,      recipes |-> <<[id |-> 4, title |-> <<"D">>]>>],
    [ingredient |-> TRoteBete,   recipes |-> <<[id |-> 5, title |-> <<"E">>]>>] }

\* uncached_ingredients: up to MaxSourceLines entries of different keys, in
\* the order in which the recipes gave them.
FindUncached ==
  { u \in UNION {[1..n -> FindSources] : n \in 0..MaxSourceLines} :
      \A i, j \in 1..Len(u) : i # j => u[i] # u[j] }

\* Names the answer gives to an item.
FindItemNames == {TRoteBete, TEiL, TLachsfilet, TBrot, TBete}

InitFind ==
  /\ cache = EmptyBag
  /\ shopping = EmptyBag
  /\ pc = [p \in Procs |-> "idle"]
  /\ loc = [p \in Procs |-> IdleLoc]
  /\ runs = 0
  /\ edits = 0
  /\ probe \in {[op |-> "item", uncached |-> u, item_name |-> n] :
                  u \in FindUncached, n \in FindItemNames}

\* find_recipes_for_item is called on the name of the item, with
\* uncached_recipe_map built from the uncached ingredients.
Find ==
  /\ probe.op = "item"
  /\ probe' = [op |-> "found", uncached |-> probe.uncached,
               item_name |-> probe.item_name,
               recipes |-> find_recipes_for_item(probe.item_name,
                                                 UncachedRecipeMap(probe.uncached))]
  /\ UNCHANGED <<cache, shopping, pc, loc, runs, edits>>

NextFind == Find

SpecFind == InitFind /\ [][NextFind]_vars

(***************************************************************************)
(* The aggregation loop taken alone, on the ingredients of the meal plans  *)
(* of a request: a recipe can be planned on several days.                  *)
(***************************************************************************)
\* The most meal plans of one request.
MaxPlans == 3

\* The recipe ids of the MealPlan rows a request selects, in order.
AggregatePlans == UNION {[1..n -> RecipeIds] : n \in 0..MaxPlans}

InitAggregate ==
  /\ cache = EmptyBag
  /\ shopping = EmptyBag
  /\ pc = [p \in Procs |-> "idle"]
  /\ loc = [p \in Procs |-> IdleLoc]
  /\ runs = 0
  /\ edits = 0
  /\ probe \in {[op |-> "plans", plans |-> pl] : pl \in AggregatePlans}

\* all_ingredients is collected and the loop over it builds
\* ingredient_counts.
AggregateStep ==
  /\ probe.op = "plans"
  /\ probe' = [op |-> "counts", plans |-> probe.plans,
               ingredient_counts |-> Aggregate(AllIngredients(probe.plans))]
  /\ UNCHANGED <<cache, shopping, pc, loc, runs, edits>>

NextAggregate == AggregateStep

SpecAggregate == InitAggregate /\ [][NextAggregate]_vars

(***************************************************************************)
(* Properties.                                                             *)
(***************************************************************************)
\* The keys of the rows of household h in the cache table.
CachedKeys(h) ==
  {r.ingredient_key : r \in {q \in BagToSet(cache) : q.household_id = h}}

\* The number of rows of the cache table for (h, key).
RowCount(h, key) ==
  BagCardinality([r \in {q \in BagToSet(cache) :
                           q.household_id = h /\ q.ingredient_key = key} |-> cache[r]])

\* Some item of the sequence items has the name.
HasItem(items, name) == \E k \in 1..Len(items) : items[k].name = name

\* The items of the group of sorted_categories called cat, <<>> when no
\* such group is emitted.
GroupItems(sorted_categories, cat) ==
  LET Is(g) == g.name = cat
      sel == SelectSeq(sorted_categories, Is)
  IN  IF sel = <<>> THEN <<>> ELSE sel[1].items

\* What the loop over ingredient_counts put into from_pantry and
\* basic_items before the categorizer was called.
FromCache(l) ==
  Classify(l.ingredient_counts, l.cache_dict, PantryNames(l.household_id))

\* C1: when the categorization call fails, the run goes on to its result:
\* every sample sent is an item of the group "Sonstiges" with an empty
\* amount, and from_pantry and basic_items hold only what the cache gave.
C1_FallbackListsEverySample ==
  \A p \in Procs :
    (pc[p] \in {"rebuild", "done"} /\ loc[p].outcome = "fallback") =>
      LET l == loc[p]
          misc == GroupItems(l.sorted_categories, "Sonstiges")
      IN  /\ \A i \in 1..Len(l.ingredient_strings) :
                \E k \in 1..Len(misc) :
                   /\ misc[k].name = l.ingredient_strings[i]
                   /\ misc[k].amount = Empty
          /\ l.from_pantry = FromCache(l).from_pantry
          /\ l.basic_items = FromCache(l).basic_items

\* C1 witness: a run whose call failed has returned its result.
C1_Witness ==
  /\ pc[1] = "done"
  /\ loc[1].outcome = "fallback"
  /\ Len(loc[1].ingredient_strings) >= 2

\* C2: a run whose categorization call failed leaves the cache table as it
\* was.
C2_FallbackLeavesCache ==
  [][\A p \in Procs :
       (pc[p] = "await" /\ loc'[p].outcome = "fallback") => cache' = cache]_vars

\* C3: the cache table holds at most one row per (household, key) when
\* requests are served one after another.
C3_OneRowPerKey ==
  \A r \in BagToSet(cache) : RowCount(r.household_id, r.ingredient_key) = 1

\* The keys of the samples a request sent to the categorizer.
SampleKeys(l) ==
  {normalize_ingredient_key(l.ingredient_strings[i]) :
     i \in 1..Len(l.ingredient_strings)}

\* C4: two requests of one household that ran at once, both missed key K
\* and both returned a result leave no more than one row for K.
C4_ConcurrentMissOneRow ==
  (pc[1] = "done" /\ pc[2] = "done" /\ loc[1].household_id = loc[2].household_id) =>
    \A key \in SampleKeys(loc[1]) \cap SampleKeys(loc[2]) :
      RowCount(loc[1].household_id, key) <= 1

\* C5: a step of a generation request removes and changes no row of the
\* cache table, and the rows it adds are for keys the household had no row
\* for.
C5_RunKeepsEntries ==
  [][pc' # pc =>
       /\ \A r \in BagToSet(cache) : CopiesIn(r, cache') >= CopiesIn(r, cache)
       /\ \A r \in BagToSet(cache') :
            CopiesIn(r, cache') > CopiesIn(r, cache) =>
              r.ingredient_key \notin CachedKeys(r.household_id)]_vars

\* C5 witness: a run that found rows in the cache and added a row has
\* returned its result.
C5_Witness ==
  /\ pc[1] = "done"
  /\ DOMAIN loc[1].cache_dict # {}
  /\ loc[1].added # <<>>
  /\ \A k \in DOMAIN loc[1].cache_dict : BagIn(loc[1].cache_dict[k], cache)

\* C6: while the household has a cache row for key K, no sample whose key
\* is K is sent to the categorizer.
C6_NoSampleForCachedKey ==
  \A p \in Procs :
    pc[p] = "await" => SampleKeys(loc[p]) \cap CachedKeys(loc[p].household_id) = {}

\* C6 witness: a request whose ingredients include a cached key is calling
\* the categorizer for its other keys.
C6_Witness ==
  /\ pc[1] = "await"
  /\ \E i \in 1..Len(loc[1].ingredient_counts) :
       loc[1].ingredient_counts[i].key \in CachedKeys(loc[1].household_id)

\* C7: a step of a generation request changes the shopping table only by
\* completing, and then the household's rows are the rows the run built: a
\* request that fails leaves the table as it was.
C7_ListReplacedOrIntact ==
  [][pc' # pc =>
       \/ shopping' = shopping
       \/ \E p \in Procs :
            /\ pc[p] # "done" /\ pc'[p] = "done"
            /\ RowsOf(shopping', loc'[p].household_id) = SeqToBag(loc'[p].db_rows)
            /\ \A h \in Households \ {loc'[p].household_id} :
                 RowsOf(shopping', h) = RowsOf(shopping, h)]_vars

\* C7 witness: a request has failed after the DELETE of its rebuild, and
\* the rows the DELETE found are the household's rows.
C7_Witness ==
  /\ pc[1] = "failed"
  /\ loc[1].deleted # EmptyBag
  /\ loc[1].db_rows # <<>>
  /\ RowsOf(shopping, loc[1].household_id) = loc[1].deleted

\* C8: when a generation request has returned its result, the household's
\* rows of the shopping table are exactly the rows the run built, all
\* unchecked.
C8_ListIsTheRunsItems ==
  \A p \in Procs :
    pc[p] = "done" =>
      /\ RowsOf(shopping, loc[p].household_id) = SeqToBag(loc[p].db_rows)
      /\ \A r \in BagToSet(RowsOf(shopping, loc[p].household_id)) : ~r.checked

\* C8 witness: a run that built rows has returned its result, and the list
\* before it held a checked row or a row added by hand.
C8_Witness ==
  /\ pc[1] = "done"
  /\ loc[1].db_rows # <<>>
  /\ \E r \in BagToSet(loc[1].deleted) : r.checked \/ r.name \in ManualNames

\* C9: every shopping item the categorizer returned with a category that
\* is no name of category_order is an item of the group "Sonstiges".
C9_UnknownCategoryKept ==
  \A p \in Procs :
    (pc[p] \in {"rebuild", "done"} /\ loc[p].outcome = "answer") =>
      \A i \in 1..Len(loc[p].answer.shopping_items) :
        LET item == loc[p].answer.shopping_items[i]
        IN  Get(item.category, "Sonstiges") \notin Range(category_order) =>
              HasItem(GroupItems(loc[p].sorted_categories, "Sonstiges"), item.name)

\* Some item of categories, from_pantry or basic_items has a name whose
\* key is key.
Represented(l, key) ==
  LET Names(items) == {normalize_ingredient_key(items[k].name) : k \in 1..Len(items)}
  IN  \/ \E g \in 1..Len(l.sorted_categories) :
           key \in Names(l.sorted_categories[g].items)
      \/ key \in Names(l.from_pantry)
      \/ key \in Names(l.basic_items)

\* The keys of the names of the items of an answer, over its three lists.
AnsweredKeys(answer) ==
  LET Names(items) == {normalize_ingredient_key(items[k].name) : k \in 1..Len(items)}
  IN  Names(answer.shopping_items) \cup Names(answer.from_pantry)
        \cup Names(answer.basic_items)

\* C10: in the result of a run, every non-empty key of the input is the key
\* of an item of categories, from_pantry or basic_items. It is stated for
\* the keys the code holds an item for (served by the cache, returned by
\* the fallback, or named by the categorizer's answer), so that a key lost
\* is lost by the code and not by an answer that omits it.
C10_NoKeyLost ==
  \A p \in Procs :
    pc[p] = "done" =>
      \A i \in 1..Len(loc[p].ingredient_counts) :
        LET key == loc[p].ingredient_counts[i].key
        IN  (\/ IsCached(key, loc[p].cache_dict)
             \/ loc[p].outcome = "fallback"
             \/ loc[p].outcome = "answer" /\ key \in AnsweredKeys(loc[p].answer))
            => Represented(loc[p], key)

\* C12: a request whose plans yield no ingredient returns at once, without
\* a call of the categorizer: its categories, from_pantry, basic_items and
\* items are empty and the cache table is as before.
C12_EmptyPlanEmptyResult ==
  [][\A p \in Procs :
       (pc[p] = "idle" /\ pc'[p] # "idle" /\ AllIngredients(loc'[p].plans) = <<>>) =>
         /\ pc'[p] = "done"
         /\ loc'[p].outcome = "none"
         /\ cache' = cache
         /\ loc'[p].sorted_categories = <<>>
         /\ loc'[p].from_pantry = <<>>
         /\ loc'[p].basic_items = <<>>
         /\ loc'[p].items = EmptyBag
         /\ RowsOf(shopping', loc'[p].household_id) = EmptyBag]_vars

\* C12 witness: a request without ingredients has returned while the
\* household has rows in the cache.
C12_Witness ==
  /\ pc[1] = "done"
  /\ AllIngredients(loc[1].plans) = <<>>
  /\ loc[1].outcome = "none"
  /\ RowsOf(cache, loc[1].household_id) # EmptyBag

\* C13: two requests of a household for the same plans, the second served
\* right after the first, the first having added no cache row (so that both
\* started from the same cache) and the categorizer having answered both
\* the same way, return the same categories, from_pantry and basic_items.
C13_RepeatedRunSameResult ==
  (/\ pc[1] = "done" /\ pc[2] = "done"
   /\ loc[1].household_id = loc[2].household_id
   /\ loc[1].plans = loc[2].plans
   /\ loc[1].added = <<>>
   /\ loc[1].outcome = loc[2].outcome
   /\ loc[1].answer = loc[2].answer)
  => /\ loc[1].sorted_categories = loc[2].sorted_categories
     /\ loc[1].from_pantry = loc[2].from_pantry
     /\ loc[1].basic_items = loc[2].basic_items

\* C14: two lines that differ only in their quantity, their unit or the
\* case of their letters have the same key.
C14_SameIngredientSameKey ==
  (probe.op = "keys" /\ lower(probe.a.name) = lower(probe.b.name))
    => probe.key_a = probe.key_b

\* An item whose name has the key item_key is an item for the source key
\* key: the two are equal or one contains the other.
ItemFor(item_key, key) ==
  /\ item_key # Empty
  /\ (item_key = key \/ Contains(key, item_key) \/ Contains(item_key, key))

\* The places <<g, j>> of the items of sorted_categories called name.
PlacesOf(sorted_categories, name) ==
  { pl \in UNION { {<<g, j>> : j \in 1..Len(sorted_categories[g].items)} :
                     g \in 1..Len(sorted_categories) } :
      sorted_categories[pl[1]].items[pl[2]].name = name }

\* C15: when the lines of several recipes have one key and the categorizer
\* returns one item for that key (and for no other key), the result holds
\* one item of that name, in the category the categorizer gave, attributed
\* to all the recipes of the key.
C15_SharedIngredientOneItem ==
  \A p \in Procs :
    (pc[p] \in {"rebuild", "done"} /\ loc[p].outcome = "answer") =>
      LET l == loc[p]
          items == l.answer.shopping_items
          KeyOf(i) == normalize_ingredient_key(l.uncached_ingredients[i].ingredient)
          ItemKey(k) == normalize_ingredient_key(items[k].name)
      IN  \A i \in 1..Len(l.uncached_ingredients), k \in 1..Len(items) :
            (/\ Len(l.uncached_ingredients[i].recipes) >= 2
             /\ ItemFor(ItemKey(k), KeyOf(i))
             /\ \A k2 \in 1..Len(items) : k2 # k => ~ItemFor(ItemKey(k2), KeyOf(i))
             /\ \A i2 \in 1..Len(l.uncached_ingredients) :
                  i2 # i => ~ItemFor(ItemKey(k), KeyOf(i2))
             /\ items[k].category \in Range(category_order))
            => LET places == PlacesOf(l.sorted_categories, items[k].name)
               IN  /\ Cardinality(places) = 1
                   /\ \A pl \in places :
                        /\ l.sorted_categories[pl[1]].name = items[k].category
                        /\ l.sorted_categories[pl[1]].items[pl[2]].recipes
                             = l.uncached_ingredients[i].recipes

\* The place of a category in category_order.
OrderIndex(cat) == CHOOSE i \in 1..Len(category_order) : category_order[i] = cat

\* C16: the groups of a result are named after categories of the fixed
\* order, each later in that order than the group before it (so none is
\* named twice), and each has an item.
C16_CategoriesInFixedOrder ==
  probe.op = "categories" =>
    LET s == probe.sorted_categories
    IN  /\ \A g \in 1..Len(s) :
             s[g].name \in Range(category_order) /\ s[g].items # <<>>
        /\ \A g \in 1..Len(s), g2 \in 1..Len(s) :
             g < g2 => OrderIndex(s[g].name) < OrderIndex(s[g2].name)

\* C16 witness: items that came in another order than the fixed one are
\* composed into two groups or more.
C16_Witness ==
  /\ probe.op = "categories"
  /\ Len(probe.sorted_categories) >= 2
  /\ Len(probe.new_items) >= 2
  /\ probe.new_items[1].category \in Range(category_order)
  /\ probe.new_items[2].category \in Range(category_order)
  /\ OrderIndex(probe.new_items[1].category) > OrderIndex(probe.new_items[2].category)

\* No key of uncached_recipe_map is item_key or matches it.
NoSourceMatch(item_key, map) ==
  \A e \in 1..Len(map) : map[e].key # item_key /\ ~FuzzyMatch(map[e].key, item_key)

\* C17: every shopping item of the answer that the grouping by category
\* kept is an item of the result, and one that matches no source key,
\* an item with an empty name included, is in the group of its category
\* without recipes and has a row with recipe_id and recipe_title null.
C17_UnmatchedItemKept ==
  \A p \in Procs :
    (pc[p] \in {"rebuild", "done"} /\ loc[p].outcome = "answer") =>
      LET l == loc[p]
          map == UncachedRecipeMap(l.uncached_ingredients)
          items == l.answer.shopping_items
          kept == {k \in 1..Len(items) : items[k].category \in Range(category_order)}
      IN  /\ Len(l.new_items) = Cardinality(kept)
          /\ \A k \in kept :
               NoSourceMatch(normalize_ingredient_key(items[k].name), map) =>
                 /\ \E pl \in PlacesOf(l.sorted_categories, items[k].name) :
                      /\ l.sorted_categories[pl[1]].name = items[k].category
                      /\ l.sorted_categories[pl[1]].items[pl[2]].amount = items[k].amount
                      /\ l.sorted_categories[pl[1]].items[pl[2]].recipes = <<>>
                 /\ \E r \in 1..Len(l.db_rows) :
                      /\ l.db_rows[r].name
                           = strip(items[k].amount \o <<" ">> \o items[k].name)
                      /\ l.db_rows[r].category = items[k].category
                      /\ l.db_rows[r].recipe_id = None
                      /\ l.db_rows[r].recipe_title = None

\* C17 witness: a request answered with an item that matches no source key
\* and an item without a name has returned its result.
C17_Witness ==
  /\ pc[1] = "done"
  /\ loc[1].outcome = "answer"
  /\ loc[1].uncached_ingredients # <<>>
  /\ \E k \in 1..Len(loc[1].answer.shopping_items) :
       loc[1].answer.shopping_items[k].name = TBrot
  /\ \E k \in 1..Len(loc[1].answer.shopping_items) :
       loc[1].answer.shopping_items[k].name = Empty
  /\ \E r \in BagToSet(RowsOf(shopping, 1)) : r.name = Empty /\ r.recipe_id = None

\* key and item_key match by containment: both of length >= 4 and one
\* contains the other.
SubstringMatch(key, item_key) ==
  /\ Len(key) >= 4 /\ Len(item_key) >= 4
  /\ (Contains(item_key, key) \/ Contains(key, item_key))

\* C19: when no source key equals the key of the item's name and some
\* source key matches it by containment, the recipes returned are those of
\* a source key that matches by containment, also when an earlier source
\* key has the same first word only.
C19_SubstringBeforeFirstWord ==
  probe.op = "found" =>
    LET item_key == normalize_ingredient_key(probe.item_name)
        map == UncachedRecipeMap(probe.uncached)
    IN  (/\ \A i \in 1..Len(map) : map[i].key # item_key
         /\ \E i \in 1..Len(map) : SubstringMatch(map[i].key, item_key))
        => \E i \in 1..Len(map) :
             /\ SubstringMatch(map[i].key, item_key)
             /\ probe.recipes = map[i].recipes

\* C20: when no source key equals the key of the item's name or matches it
\* by containment, and some source key has the same first word, the
\* recipes returned are those of a source key with the same first word,
\* whatever the lengths of the two texts.
C20_FirstWordWhateverLengths ==
  probe.op = "found" =>
    LET item_key == normalize_ingredient_key(probe.item_name)
        map == UncachedRecipeMap(probe.uncached)
    IN  (/\ \A i \in 1..Len(map) :
              map[i].key # item_key /\ ~SubstringMatch(map[i].key, item_key)
         /\ \E i \in 1..Len(map) : FirstWord(map[i].key) = FirstWord(item_key))
        => \E i \in 1..Len(map) :
             /\ FirstWord(map[i].key) = FirstWord(item_key)
             /\ probe.recipes = map[i].recipes

\* C21: when the key of the item's name is a source key, the recipes
\* returned are the recipes of that key, wherever the key stands among the
\* source keys and whatever other source keys match by containment or by
\* first word.
C21_ExactMatchWins ==
  probe.op = "found" =>
    LET item_key == normalize_ingredient_key(probe.item_name)
        map == UncachedRecipeMap(probe.uncached)
    IN  \A i \in 1..Len(map) :
          map[i].key = item_key => probe.recipes = map[i].recipes

\* C21 witness: the key of the item's name is the second source key, and
\* the first source key matches it by containment or by first word.
C21_Witness ==
  /\ probe.op = "found"
  /\ LET item_key == normalize_ingredient_key(probe.item_name)
         map == UncachedRecipeMap(probe.uncached)
     IN  /\ Len(map) = 2
         /\ map[2].key = item_key
         /\ FuzzyMatch(map[1].key, item_key)
         /\ probe.recipes = map[2].recipes
         /\ map[1].recipes # map[2].recipes

\* C22: the samples of a request are one raw text for each non-empty key
\* of its ingredients that is no key of cache_dict, and no other: the
\* samples have different keys, their keys are the missed keys, and each
\* is the first ingredient line of the request with its key.
C22_OneSamplePerMissedKey ==
  \A p \in Procs :
    pc[p] # "idle" =>
      LET l == loc[p]
          all == AllIngredients(l.plans)
          KeyAt(j) == normalize_ingredient_key(all[j].ingredient)
          missed == ({KeyAt(j) : j \in 1..Len(all)} \ {Empty}) \ DOMAIN l.cache_dict
          samples == l.ingredient_strings
      IN  /\ l.outcome # "none" => SampleKeys(l) = missed
          /\ l.outcome = "none" => samples = <<>>
          /\ \A i, k \in 1..Len(samples) :
               i # k => normalize_ingredient_key(samples[i])
                          # normalize_ingredient_key(samples[k])
          /\ \A i \in 1..Len(samples) :
               \E j \in 1..Len(all) :
                 /\ all[j].ingredient = samples[i]
                 /\ \A j2 \in 1..(j - 1) : KeyAt(j2) # KeyAt(j)

\* C22 witness: a request is calling the categorizer with one sample for
\* a key that two different ingredient lines have, while another key of
\* its ingredients is cached.
C22_Witness ==
  /\ pc[1] = "await"
  /\ DOMAIN loc[1].cache_dict # {}
  /\ \E i \in 1..Len(loc[1].ingredient_counts) :
       IsCached(loc[1].ingredient_counts[i].key, loc[1].cache_dict)
  /\ \E i \in 1..Len(loc[1].ingredient_counts) :
       LET b == loc[1].ingredient_counts[i]
       IN  /\ ~IsCached(b.key, loc[1].cache_dict)
           /\ Len(b.ingredients) >= 2
           /\ b.ingredients[1] # b.ingredients[2]
           /\ b.ingredients[1] \in Range(loc[1].ingredient_strings)
           /\ b.ingredients[2] \notin Range(loc[1].ingredient_strings)

\* C23: a request calls the categorizer at most once; it makes no call
\* when every key of its ingredients is a key of cache_dict, and one call
\* and no more when the call failed.
C23_AtMostOneCall ==
  \A p \in Procs :
    LET l == loc[p]
    IN  /\ l.calls <= 1
        /\ (pc[p] # "idle" /\ \A i \in 1..Len(l.ingredient_counts) :
                                IsCached(l.ingredient_counts[i].key, l.cache_dict))
             => l.calls = 0
        /\ l.outcome = "fallback" => l.calls = 1

\* C23 witness: a request whose call failed has returned its result after
\* one call, some of its keys having been served by the cache.
C23_Witness ==
  /\ pc[1] = "done"
  /\ loc[1].outcome = "fallback"
  /\ loc[1].calls = 1
  /\ \E i \in 1..Len(loc[1].ingredient_counts) :
       IsCached(loc[1].ingredient_counts[i].key, loc[1].cache_dict)

\* The names of the items of the value process_shopping_list returned to
\* the request, over its groups and its basic_items.
ReturnedNames(l) ==
  LET smart_list == process_shopping_list(l.ingredient_strings, l.answer)
  IN  UNION { {c.items[k].name : k \in 1..Len(c.items)} :
                c \in Range(smart_list.categories) }
        \cup {smart_list.basic_items[k].name : k \in 1..Len(smart_list.basic_items)}

\* C24: every row a request adds to the cache table has as ingredient_key
\* the key of its own display_name, which is a name the categorizer
\* returned, and the key is not empty: a returned name whose key is empty
\* gives no row.
C24_EntryKeyedByOutputName ==
  \A p \in Procs :
    loc[p].outcome \in {"answer", "fallback"} =>
      \A i \in 1..Len(loc[p].added) :
        LET r == loc[p].added[i]
        IN  /\ r.ingredient_key = normalize_ingredient_key(r.display_name)
            /\ r.ingredient_key # Empty
            /\ r.display_name \in ReturnedNames(loc[p])
            /\ BagIn(r, cache)

\* C24 witness: a request has returned after an answer with a name whose
\* key is empty and a name whose key is none of the keys of its
\* ingredients; it added a row for the second name.
C24_Witness ==
  /\ pc[1] = "done"
  /\ loc[1].outcome = "answer"
  /\ \E n \in ReturnedNames(loc[1]) : normalize_ingredient_key(n) = Empty
  /\ \E i \in 1..Len(loc[1].added) :
       \A k \in 1..Len(loc[1].ingredient_counts) :
         loc[1].added[i].ingredient_key # loc[1].ingredient_counts[k].key

\* C25: ingredient_counts holds one bucket for each non-empty key of the
\* ingredient lines and no other bucket, and the recipes of a bucket are
\* one entry, with the recipe's title, for each recipe that has a line
\* with the bucket's key, however often the recipe has such a line or is
\* planned.
C25_OneBucketPerKey ==
  probe.op = "counts" =>
    LET all == AllIngredients(probe.plans)
        counts == probe.ingredient_counts
        KeyAt(j) == normalize_ingredient_key(all[j].ingredient)
    IN  /\ \A i, k \in 1..Len(counts) : i # k => counts[i].key # counts[k].key
        /\ {counts[i].key : i \in 1..Len(counts)}
             = {KeyAt(j) : j \in 1..Len(all)} \ {Empty}
        /\ \A i \in 1..Len(counts) :
             LET recipes == counts[i].recipes
             IN  /\ \A a, b \in 1..Len(recipes) :
                      a # b => recipes[a].id # recipes[b].id
                 /\ {recipes[a].id : a \in 1..Len(recipes)}
                      = {all[j].recipe_id : j \in {x \in 1..Len(all) :
                                                    KeyAt(x) = counts[i].key}}
                 /\ \A a \in 1..Len(recipes) :
                      recipes[a].title = Recipe(recipes[a].id).title

\* C25 witness: a recipe is planned twice and has two lines of one key and
\* a line whose key is empty; the bucket of the key has the lines of two
\* recipes.
C25_Witness ==
  /\ probe.op = "counts"
  /\ \E i, k \in 1..Len(probe.plans) : i # k /\ probe.plans[i] = probe.plans[k]
  /\ \E j \in 1..Len(AllIngredients(probe.plans)) :
       normalize_ingredient_key(AllIngredients(probe.plans)[j].ingredient) = Empty
  /\ \E i \in 1..Len(probe.ingredient_counts) :
       /\ Len(probe.ingredient_counts[i].recipes) = 2
       /\ Len(probe.ingredient_counts[i].ingredients) >= 5

\* C26: a step of clear_ingredient_cache for a household deletes every row
\* of the household from the cache table and answers with their number;
\* every other step (of a generation request, of adding, toggling and
\* deleting a shopping item, of clearing the shopping list) deletes no row
\* of the cache table.
C26_OnlyClearDeletesEntries ==
  [][IF edits' # edits /\ probe'.op = "deleted"
     THEN /\ RowsOf(cache', probe'.household_id) = EmptyBag
          /\ probe'.deleted = BagCardinality(RowsOf(cache, probe'.household_id))
          /\ cache' (+) RowsOf(cache, probe'.household_id) = cache
     ELSE \A r \in BagToSet(cache) : CopiesIn(r, cache') >= CopiesIn(r, cache)]_vars

\* C26 witness: the cache has been cleared of the two rows that a request
\* had added, after the request had returned.
C26_Witness ==
  /\ probe.op = "deleted"
  /\ probe.deleted = 2
  /\ runs >= 1
  /\ RowsOf(cache, probe.household_id) = EmptyBag

\* The key matches a name of the household's pantry: one contains the
\* other, the name in lower case.
MatchesPantry(key, h) ==
  \E n \in Range(PantryNames(h)) : Contains(key, lower(n)) \/ Contains(lower(n), key)

\* The item of a group of sorted_categories that was made from the cache
\* row of key: it carries the bucket's raw texts as original_items.
InCategories(l, key, cat, name) ==
  \E g \in 1..Len(l.sorted_categories) :
    \E j \in 1..Len(l.sorted_categories[g].items) :
      LET item == l.sorted_categories[g].items[j]
      IN  /\ "original_items" \in DOMAIN item
          /\ normalize_ingredient_key(item.original_items[1]) = key
          /\ (cat # "" => l.sorted_categories[g].name = cat /\ item.name = name)

\* The item of from_pantry that was made from the cache row of key.
InFromPantry(l, key) ==
  \E j \in 1..Len(l.from_pantry) :
    /\ "pantry_match" \in DOMAIN l.from_pantry[j]
    /\ l.from_pantry[j].pantry_match = key

\* The items of basic_items made from cache rows stand before those of the
\* answer; one of them has the name, the category and the recipes.
InBasicItems(l, name, category, recipes) ==
  \E j \in 1..(Len(l.basic_items)
                 - (IF l.outcome = "answer" THEN Len(l.answer.basic_items) ELSE 0)) :
    /\ l.basic_items[j].name = name
    /\ l.basic_items[j].category = category
    /\ l.basic_items[j].recipes = recipes

C28_ConcurrentListIsOneRuns ==
  (pc[1] = "done" /\ pc[2] = "done" /\ loc[1].household_id = loc[2].household_id) =>
    \/ RowsOf(shopping, loc[1].household_id) = SeqToBag(loc[1].db_rows)
    \/ RowsOf(shopping, loc[1].household_id) = SeqToBag(loc[2].db_rows)

\* The titles of the first n recipes, each after the first preceded by a
\* comma and a blank.
RECURSIVE TitlesUpTo(_, _)
TitlesUpTo(recipes, n) ==
  IF n = 1 THEN recipes[1].title
  ELSE TitlesUpTo(recipes, n - 1) \o <<",", " ">> \o recipes[n].title

\* The items of the groups of sorted_categories in order, each with the
\* name of its group.
EmittedItems(sorted_categories) ==
  Flatten([g \in 1..Len(sorted_categories) |->
             [j \in 1..Len(sorted_categories[g].items) |->
                [group |-> sorted_categories[g].name,
                 item  |-> sorted_categories[g].items[j]]]])

\* C18: when a request has returned its result, the household's rows of
\* the shopping table are one row per item of the emitted groups and no
\* other: the row's name is the amount, a blank and the name, trimmed; its
\* category is the group's name; recipe_id is the id of the first recipe of
\* the item and recipe_title the recipes' titles joined by ", ", both null
\* when the item has no recipe.
C18_RowsAreTheEmittedItems ==
  \A p \in Procs :
    pc[p] = "done" =>
      LET l == loc[p]
          emitted == EmittedItems(l.sorted_categories)
          rows == l.db_rows
      IN  /\ RowsOf(shopping, l.household_id) = SeqToBag(rows)
          /\ Len(rows) = Len(emitted)
          /\ \A k \in 1..Len(emitted) :
               LET item == emitted[k].item
               IN  /\ rows[k].name = strip(item.amount \o <<" ">> \o item.name)
                   /\ rows[k].category = emitted[k].group
                   /\ IF item.recipes = <<>>
                      THEN rows[k].recipe_id = None /\ rows[k].recipe_title = None
                      ELSE /\ rows[k].recipe_id = Some(item.recipes[1].id)
                           /\ rows[k].recipe_title
                                = Some(TitlesUpTo(item.recipes, Len(item.recipes)))

\* C18 witness: a request has returned a result whose rows hold an item
\* of two recipes with an amount and an item of no recipe.
C18_Witness ==
  /\ pc[1] = "done"
  /\ \E r \in BagToSet(RowsOf(shopping, 1)) :
       r.recipe_title = Some(<<"A", ",", " ", "B">>) /\ r.name = T400g \o <<" ">> \o TLachs
  /\ \E r \in BagToSet(RowsOf(shopping, 1)) : r.recipe_title = None

\* What a result shows for a key: the name, the amount, the group and the
\* recipes of the items of its groups whose name has the key.
EmittedFor(l, key) ==
  { [name |-> e.item.name, amount |-> e.item.amount, category |-> e.group,
     recipes |-> e.item.recipes] :
      e \in {x \in Range(EmittedItems(l.sorted_categories)) :
               normalize_ingredient_key(x.item.name) = key} }

\* C29: a request served right after one that got an item for key K from
\* the categorizer and added K's row to the cache, for the same plans,
\* shows for K what the first one showed: the same name, amount, group and
\* recipes. It is stated for a second request whose own answer, if it gets
\* one, does not name K again.
C29_CachedItemLooksTheSame ==
  (/\ pc[1] = "done" /\ pc[2] = "done"
   /\ loc[1].household_id = loc[2].household_id
   /\ loc[1].plans = loc[2].plans
   /\ loc[1].outcome = "answer")
  => \A i \in 1..Len(loc[1].added) :
       LET key == loc[1].added[i].ingredient_key
       IN  (/\ ~loc[1].added[i].is_basic
            /\ \E k \in 1..Len(loc[1].ingredient_counts) :
                 loc[1].ingredient_counts[k].key = key
            /\ key \in DOMAIN loc[2].cache_dict
            /\ loc[2].outcome = "answer" => key \notin AnsweredKeys(loc[2].answer))
           => EmittedFor(loc[2], key) = EmittedFor(loc[1], key)

\* A step leaves the rows of every household other than h as they are, in
\* both tables.
OthersUntouched(h) ==
  \A h2 \in Households \ {h} :
    /\ RowsOf(cache', h2) = RowsOf(cache, h2)
    /\ RowsOf(shopping', h2) = RowsOf(shopping, h2)

\* The request has read rows and pantry names of its own household only:
\* the rows of cache_dict are rows of the household, and the keys it put
\* into from_pantry match a name of the household's pantry.
ReadsOwn(l) ==
  /\ \A k \in DOMAIN l.cache_dict : l.cache_dict[k].household_id = l.household_id
  /\ \A j \in 1..Len(l.from_pantry) :
       "pantry_match" \in DOMAIN l.from_pantry[j]
         => MatchesPantry(l.from_pantry[j].pantry_match, l.household_id)

\* C30: every step of a generation request of household H, and every
\* request to clear H's cache or to add, toggle, delete or clear shopping
\* items of H, leaves the rows of the other households in the cache table
\* and in the shopping table as they were; a generation request of H reads
\* rows of the cache and names of the pantry of H only.
C30_HouseholdsAreIsolated ==
  [][/\ \A p \in Procs :
          pc'[p] # pc[p] =>
            /\ OthersUntouched(IF pc[p] = "idle" THEN loc'[p].household_id
                                                 ELSE loc[p].household_id)
            /\ pc'[p] # "idle" => ReadsOwn(loc'[p])
     /\ \A h \in Households :
          (\/ clear_ingredient_cache(h)
           \/ clear_shopping_list(h)
           \/ \E name \in ManualNames : add_shopping_item(h, name)
           \/ \E row \in BagToSet(shopping) :
                toggle_shopping_item(h, row) \/ delete_shopping_item(h, row))
          => OthersUntouched(h)]_vars

\* C30 witness: the cache of a household has been cleared of its rows
\* after a request of each household, while the other household has rows
\* in both tables, one of them for a key that matches the pantry of the
\* first.
C30_Witness ==
  /\ probe.op = "deleted"
  /\ probe.deleted > 0
  /\ runs = 2
  /\ \E h \in Households \ {probe.household_id} :
       /\ RowsOf(shopping, h) # EmptyBag
       /\ \E r \in BagToSet(RowsOf(cache, h)) :
            MatchesPantry(r.ingredient_key, probe.household_id)
  /\ RowsOf(shopping, probe.household_id) # EmptyBag

\* C11: in a result, no item of a category has a key that contains, or is
\* contained in, a lower-cased pantry name, and every key of the input that
\* does and that the result holds an item for has its item in from_pantry.
C11_PantryItemsInFromPantry ==
  \A p \in Procs :
    pc[p] \in {"rebuild", "done"} =>
      LET l == loc[p]
          pantry == PantryNames(l.household_id)
          Names(items) == {normalize_ingredient_key(items[k].name) : k \in 1..Len(items)}
      IN  /\ \A g \in 1..Len(l.sorted_categories) :
               \A key \in Names(l.sorted_categories[g].items) :
                  ~InPantry(key, pantry)
          /\ \A i \in 1..Len(l.ingredient_counts) :
               LET key == l.ingredient_counts[i].key
               IN  (InPantry(key, pantry) /\ Represented(l, key))
                     => key \in Names(l.from_pantry)

====
